---------------------------- MODULE Spec2Model ----------------------------
(***************************************************************************)
(* Model of the metadata-resolution pipeline of echo-me                    *)
(* (src/src/modules/metadata_extractor.py).                                *)
(*                                                                         *)
(* Text is a sequence of one-character strings.  A Python value is a       *)
(* record [k, s, l]: k is the Python type ("none", "str", "int", "date",   *)
(* "list"), s the characters of a str / the decimal digits of an int /     *)
(* the ISO text of a date, l the items of a list (each item a record       *)
(* [k, s]).  A YAML document (the result of yaml.safe_load) is a record    *)
(* [k, s, l, keys, f]: for a mapping k = "map", keys is the set of keys    *)
(* present and f their values; any other document is a Python value.       *)
(***************************************************************************)
EXTENDS Integers, Sequences, FiniteSets, TLC

VARIABLES pc, args, env, ret, page, drive, inv, notion, svc, disk

vars == <<pc, args, env, ret, page, drive, inv, notion, svc, disk>>

----------------------------------------------------------------------------
(* Text helpers: the str methods the module uses. *)

UpperChars == <<"A","B","C","D","E","F","G","H","I","J","K","L","M",
                "N","O","P","Q","R","S","T","U","V","W","X","Y","Z">>
LowerChars == <<"a","b","c","d","e","f","g","h","i","j","k","l","m",
                "n","o","p","q","r","s","t","u","v","w","x","y","z">>

\* re.IGNORECASE folding of one character
Fold(c) ==
    IF \E i \in 1..26 : UpperChars[i] = c
    THEN LowerChars[CHOOSE i \in 1..26 : UpperChars[i] = c]
    ELSE c

\* the character U+0060, which a TLA+ string cannot hold
Backtick == "<backtick>"

\* str.strip() removes these
Whitespace == {" ", "\n", "\t"}

Lowest(S) == CHOOSE i \in S : \A j \in S : i <= j
Highest(S) == CHOOSE i \in S : \A j \in S : j <= i

Drop(s, n) == IF n >= Len(s) THEN <<>> ELSE SubSeq(s, n + 1, Len(s))
Take(s, n) == IF n >= Len(s) THEN s ELSE SubSeq(s, 1, n)

StartsWith(s, p) == Len(p) <= Len(s) /\ SubSeq(s, 1, Len(p)) = p
EndsWith(s, p) ==
    Len(p) <= Len(s) /\ SubSeq(s, Len(s) - Len(p) + 1, Len(s)) = p

\* "p in s" for two str
IsSubstr(p, s) ==
    \E i \in 0..Len(s) : i + Len(p) <= Len(s) /\ SubSeq(s, i + 1, i + Len(p)) = p

\* s.strip()
Strip(s) ==
    LET nonws == {i \in 1..Len(s) : s[i] \notin Whitespace}
    IN  IF nonws = {} THEN <<>>
        ELSE LET lo == CHOOSE i \in nonws : \A j \in nonws : i <= j
                 hi == CHOOSE i \in nonws : \A j \in nonws : j <= i
             IN  SubSeq(s, lo, hi)

\* s.split(sep)[-1] for a one-character separator
LastPiece(s, sep) ==
    LET at == {i \in 1..Len(s) : s[i] = sep}
    IN  IF at = {} THEN s
        ELSE Drop(s, CHOOSE i \in at : \A j \in at : j <= i)

\* s.split(sep) for a one-character separator
RECURSIVE Split(_, _)
Split(s, sep) ==
    LET at == {i \in 1..Len(s) : s[i] = sep}
    IN  IF at = {} THEN <<s>>
        ELSE LET i == CHOOSE x \in at : \A y \in at : x <= y
             IN  <<Take(s, i - 1)>> \o Split(Drop(s, i), sep)

----------------------------------------------------------------------------
(* Literals of the module *)

T_meeting   == <<"m","e","e","t","i","n","g">>
T_interview == <<"i","n","t","e","r","v","i","e","w">>
T_memo      == <<"m","e","m","o">>
T_webinar   == <<"w","e","b","i","n","a","r">>
T_unknown   == <<"u","n","k","n","o","w","n">>
T_minutes    == <<"m","i","n","u","t","e","s">>
T_transcript == <<"t","r","a","n","s","c","r","i","p","t">>
T_note       == <<"n","o","t","e">>
T_summary    == <<"s","u","m","m","a","r","y">>
T_general    == <<"g","e","n","e","r","a","l">>
T_source == <<"s","o","u","r","c","e">>
T_type   == <<"t","y","p","e">>
T_topics == <<"t","o","p","i","c","s">>
T_date   == <<"d","a","t","e">>

\* FILENAME_PATTERNS, in dict order; each regex "^prefix" is kept as its
\* literal prefix
FILENAME_PATTERNS ==
    << [pattern |-> T_meeting \o <<"_">>,   source |-> T_meeting,   type |-> T_minutes],
       [pattern |-> T_interview \o <<"_">>, source |-> T_interview, type |-> T_transcript],
       [pattern |-> T_memo \o <<"_">>,      source |-> T_memo,      type |-> T_note],
       [pattern |-> T_webinar \o <<"_">>,   source |-> T_webinar,   type |-> T_summary] >>

DEFAULT_METADATA == [source |-> T_unknown, type |-> T_general]

\* re.match("^prefix", s) without re.IGNORECASE
ReMatchMut(prefix, s) ==
    Len(prefix) <= Len(s) /\ \A i \in 1..Len(prefix) : s[i] = prefix[i]

\* re.match("^prefix", s, re.IGNORECASE)
ReMatch(prefix, s) ==
    Len(prefix) <= Len(s) /\ \A i \in 1..Len(prefix) : Fold(s[i]) = Fold(prefix[i])

\* filename.split("/")[-1].split("\\")[-1]
BaseName(filename) == LastPiece(LastPiece(filename, "/"), "\\")

infer_metadata_from_filename(filename) ==
    LET base_filename == BaseName(filename)
        hits == {i \in 1..Len(FILENAME_PATTERNS) :
                    ReMatch(FILENAME_PATTERNS[i].pattern, base_filename)}
    IN  IF hits = {} THEN DEFAULT_METADATA
        ELSE LET first == CHOOSE i \in hits : \A j \in hits : i <= j
             IN  [source |-> FILENAME_PATTERNS[first].source,
                  type   |-> FILENAME_PATTERNS[first].type]

----------------------------------------------------------------------------
(* Python values *)

PyNone     == [k |-> "none", s |-> <<>>, l |-> <<>>]
PyStr(t)   == [k |-> "str",  s |-> t,    l |-> <<>>]
PyInt(t)   == [k |-> "int",  s |-> t,    l |-> <<>>]
PyDate(t)  == [k |-> "date", s |-> t,    l |-> <<>>]
PyList(xs) == [k |-> "list", s |-> <<>>, l |-> xs]
Item(t)    == [k |-> "str",  s |-> t]
ItemInt(t) == [k |-> "int",  s |-> t]
ItemNone   == [k |-> "none", s |-> <<>>]

\* bool(v)
Truthy(v) ==
    CASE v.k = "none" -> FALSE
      [] v.k = "str"  -> v.s # <<>>
      [] v.k = "int"  -> v.s # <<"0">>
      [] v.k = "list" -> v.l # <<>>
      [] v.k = "map"  -> v.keys # {}
      [] OTHER        -> TRUE

FieldNames == {"source", "type", "topics", "date", "summary"}

\* the text of a key
KeyText(key) ==
    CASE key = "source"  -> T_source
      [] key = "type"    -> T_type
      [] key = "topics"  -> T_topics
      [] key = "date"    -> T_date
      [] key = "summary" -> T_summary

NoFields == [key \in FieldNames |-> PyNone]

\* a YAML document that is a scalar or a list
DocOf(v) == [k |-> v.k, s |-> v.s, l |-> v.l, keys |-> {}, f |-> NoFields]

\* a YAML document that is a mapping with the keys ks
DocMap(ks, src, typ, top, dat, sum) ==
    [k |-> "map", s |-> <<>>, l |-> <<>>, keys |-> ks,
     f |-> [key \in FieldNames |->
              CASE key = "source"  -> src
                [] key = "type"    -> typ
                [] key = "topics"  -> top
                [] key = "date"    -> dat
                [] key = "summary" -> sum]]

EmptyMap == DocMap({}, PyNone, PyNone, PyNone, PyNone, PyNone)

\* d.get(key, default) on a dict
Get(d, key, default) == IF key \in d.keys THEN d.f[key] ELSE default

\* "key in d": membership for a dict, substring for a str, element for a
\* list; any other operand is a TypeError (see InRaises)
In(key, d) ==
    CASE d.k = "map"  -> key \in d.keys
      [] d.k = "str"  -> IsSubstr(KeyText(key), d.s)
      [] d.k = "list" -> \E i \in 1..Len(d.l) : d.l[i] = Item(KeyText(key))
      [] OTHER        -> FALSE

InRaises(d) == d.k \notin {"map", "str", "list"}

----------------------------------------------------------------------------
(* parse_topics_string *)

RECURSIVE StripNonEmpty(_)
StripNonEmpty(pieces) ==
    IF pieces = <<>> THEN <<>>
    ELSE LET t == Strip(Head(pieces))
         IN  (IF t # <<>> THEN <<Item(t)>> ELSE <<>>) \o StripNonEmpty(Tail(pieces))

\* line 249 without the "if topic.strip()" filter
parse_topics_stringMut(topics_str) ==
    IF topics_str = <<>> THEN <<>>
    ELSE [i \in 1..Len(Split(topics_str, ",")) |->
             Item(Strip(Split(topics_str, ",")[i]))]

parse_topics_string(topics_str) ==
    IF topics_str = <<>> THEN <<>>
    ELSE StripNonEmpty(Split(topics_str, ","))

----------------------------------------------------------------------------
(* yaml.safe_load.  A YAML text is a sequence of characters in which one   *)
(* element may be the name of a document body (YamlBodies): the library's  *)
(* parse of a body is tabulated in YamlBody.                               *)

\* the summary cap of _parse_llm_metadata_response
SummaryCap  == 50
SummaryKeep == 47
Ellipsis == <<".", ".", ".">>

T_bogus == <<"b","o","g","u","s">>
T_SAP   == <<"S","A","P">>
T_BTP   == <<"B","T","P">>

\* a text of n characters, no two neighbours equal
TextOfLen(n) == [i \in 1..n |-> LowerChars[((i - 1) % 26) + 1]]

YamlBodies == {"Y:full", "Y:outofset", "Y:long", "Y:over", "Y:topics-str", "Y:topics-ws",
               "Y:empty-map", "Y:scalar", "Y:list", "Y:summary-null",
               "Y:summary-int", "Y:syntax-error"}

LongLen == 60

YamlBody(name) ==
    CASE name = "Y:full" ->
           [err |-> FALSE,
            doc |-> DocMap({"source", "type", "topics", "summary"},
                           PyStr(T_webinar), PyStr(T_summary),
                           PyList(<<Item(T_SAP), Item(T_BTP)>>), PyNone,
                           PyStr(TextOfLen(SummaryCap)))]
      [] name = "Y:outofset" ->
           [err |-> FALSE,
            doc |-> DocMap({"source", "type"},
                           PyStr(T_bogus), PyStr(T_bogus), PyNone, PyNone, PyNone)]
      [] name = "Y:long" ->
           [err |-> FALSE,
            doc |-> DocMap({"source", "summary"},
                           PyStr(T_memo), PyNone, PyNone, PyNone,
                           PyStr(TextOfLen(LongLen)))]
      [] name = "Y:over" ->
           [err |-> FALSE,
            doc |-> DocMap({"source", "type", "summary"},
                           PyStr(T_interview), PyStr(T_minutes), PyNone, PyNone,
                           PyStr(TextOfLen(SummaryCap + 1)))]
      [] name = "Y:topics-str" ->
           [err |-> FALSE,
            doc |-> DocMap({"type", "topics"},
                           PyNone, PyStr(T_note),
                           PyStr(T_SAP \o <<",", " ">> \o T_BTP \o <<" ", ",", ",", " ">>),
                           PyNone, PyNone)]
      [] name = "Y:topics-ws" ->
           [err |-> FALSE,
            doc |-> DocMap({"topics"},
                           PyNone, PyNone,
                           PyList(<<Item(<<" ">> \o T_SAP), Item(<<" ">>), ItemNone,
                                    ItemInt(<<"7">>), Item(<<>>)>>),
                           PyNone, PyNone)]
      [] name = "Y:empty-map" -> [err |-> FALSE, doc |-> EmptyMap]
      [] name = "Y:scalar" -> [err |-> FALSE, doc |-> DocOf(PyStr(T_memo))]
      [] name = "Y:list" -> [err |-> FALSE, doc |-> DocOf(PyList(<<Item(T_source)>>))]
      [] name = "Y:summary-null" ->
           [err |-> FALSE,
            doc |-> DocMap({"source", "summary"},
                           PyStr(T_meeting), PyNone, PyNone, PyNone, PyNone)]
      [] name = "Y:summary-int" ->
           [err |-> FALSE,
            doc |-> DocMap({"summary"},
                           PyNone, PyNone, PyNone, PyNone, PyInt(<<"7">>))]
      [] OTHER -> [err |-> TRUE, doc |-> DocOf(PyNone)]

\* yaml.safe_load(text): err stands for yaml.YAMLError
safe_load(text) ==
    LET t == Strip(text)
    IN  CASE t = <<>> -> [err |-> FALSE, doc |-> DocOf(PyNone)]
          [] Len(t) = 1 /\ t[1] \in YamlBodies -> YamlBody(t[1])
          [] Len(t) > 0 /\ (t[1] = Backtick \/ \E i \in 1..Len(t) : t[i] \in YamlBodies) ->
               [err |-> TRUE, doc |-> DocOf(PyNone)]
          [] OTHER -> [err |-> FALSE, doc |-> DocOf(PyStr(t))]

----------------------------------------------------------------------------
(* _parse_llm_metadata_response *)

Fence     == <<Backtick, Backtick, Backtick>>
FenceYaml == Fence \o <<"y", "a", "m", "l">>

valid_sources == {T_meeting, T_interview, T_memo, T_webinar, T_unknown}
valid_types   == {T_minutes, T_transcript, T_note, T_summary, T_general}

\* lines 357-364
CleanReply(response) ==
    LET c0 == Strip(response)
        c1 == IF StartsWith(c0, FenceYaml) THEN Drop(c0, 7)
              ELSE IF StartsWith(c0, Fence) THEN Drop(c0, 3)
              ELSE c0
        c2 == IF EndsWith(c1, Fence) THEN Take(c1, Len(c1) - 3) ELSE c1
    IN  Strip(c2)

\* lines 366-371
ParsedReply(response) ==
    LET r == safe_load(CleanReply(response))
    IN  IF r.err \/ r.doc.k = "none" THEN EmptyMap ELSE r.doc

\* lines 384-387 without the test
ValidateMut(v, valid, default) == v

\* lines 384-387: "value not in valid" replaces the value by the default
Validate(v, valid, default) ==
    IF v.k = "str" /\ v.s \in valid THEN v ELSE PyStr(default)

\* str(t).strip() for t in topics if t
RECURSIVE TopicsOfList(_)
TopicsOfList(items) ==
    IF items = <<>> THEN <<>>
    ELSE LET t == Head(items)
             keep == CASE t.k = "none" -> FALSE
                       [] t.k = "int"  -> t.s # <<"0">>
                       [] OTHER        -> t.s # <<>>
         IN  (IF keep THEN <<Item(Strip(t.s))>> ELSE <<>>) \o TopicsOfList(Tail(items))

\* lines 390-394
ReplyTopics(topics) ==
    CASE topics.k = "list" -> PyList(TopicsOfList(topics.l))
      [] topics.k = "str"  -> PyList(parse_topics_string(topics.s))
      [] OTHER             -> PyList(<<>>)

\* lines 397-398; len() of a value that has no length, or list + str, is a
\* TypeError
TruncateRaises(summary) ==
    \/ summary.k \notin {"str", "list"}
    \/ summary.k = "list" /\ Len(summary.l) > SummaryCap

\* lines 397-398 cutting at the cap instead of three characters before it
TruncateMut(summary) ==
    IF summary.k = "str" /\ Len(summary.s) > SummaryCap
    THEN PyStr(Take(summary.s, SummaryCap) \o Ellipsis)
    ELSE summary

Truncate(summary) ==
    IF summary.k = "str" /\ Len(summary.s) > SummaryCap
    THEN PyStr(Take(summary.s, SummaryKeep) \o Ellipsis)
    ELSE summary

\* lines 396-400
ParserReturn(source, type, topics, summary) ==
    IF TruncateRaises(summary)
    THEN [exc |-> "TypeError", val |-> EmptyMap]
    ELSE [exc |-> "none",
          val |-> DocMap({"source", "type", "topics", "summary"},
                         source, type, topics, PyNone, Truncate(summary))]

\* lines 373-400; parsed.get on a document that is not a mapping is an
\* AttributeError
ParserResult(parsed) ==
    IF parsed.k # "map"
    THEN [exc |-> "AttributeError", val |-> EmptyMap]
    ELSE ParserReturn(
             Validate(Get(parsed, "source", PyStr(T_unknown)), valid_sources, T_unknown),
             Validate(Get(parsed, "type", PyStr(T_general)), valid_types, T_general),
             ReplyTopics(Get(parsed, "topics", PyList(<<>>))),
             Get(parsed, "summary", PyStr(<<>>)))

_parse_llm_metadata_response(response) == ParserResult(ParsedReply(response))

----------------------------------------------------------------------------
(* load_metadata_from_yaml.  A sidecar file is [st, doc]: st is "missing"  *)
(* (os.path.exists is false), "oserror" (open or read raises OSError),     *)
(* "yamlerror" (yaml.YAMLError), "decodeerror" (the bytes are not UTF-8:   *)
(* the read raises UnicodeDecodeError, a ValueError) or "ok" with the      *)
(* parsed document doc.                                                    *)

Absent == DocOf(PyNone)

load_metadata_from_yaml(sidecar) ==
    CASE sidecar.st = "missing"     -> [exc |-> "none", doc |-> Absent]
      [] sidecar.st = "ok"          -> [exc |-> "none", doc |-> sidecar.doc]
      [] sidecar.st = "decodeerror" -> [exc |-> "UnicodeDecodeError", doc |-> Absent]
      [] OTHER                      -> [exc |-> "none", doc |-> Absent]

----------------------------------------------------------------------------
(* generate_metadata_with_llm.  The service is [apikey, fail, reply]:      *)
(* whether ANTHROPIC_API_KEY is set, whether messages.create raises, and   *)
(* the text of the reply.                                                  *)

generate_metadata_with_llm(content, llm) ==
    IF ~llm.apikey THEN [exc |-> "ValueError", val |-> EmptyMap]
    ELSE IF llm.fail THEN [exc |-> "APIError", val |-> EmptyMap]
    ELSE _parse_llm_metadata_response(llm.reply)

----------------------------------------------------------------------------
(* extract_metadata *)

\* date.today().isoformat()
Today == <<"2","0","2","6","-","1","1","-","0","1">>

\* line 186 without its test of yaml_metadata
CallsClassifierMut(yaml_metadata, content, use_llm) ==
    Truthy(content) /\ use_llm

\* line 186
CallsClassifier(yaml_metadata, content, use_llm) ==
    yaml_metadata.k = "none" /\ Truthy(content) /\ use_llm

\* lines 201-204, 212-215 as a whole-record replacement: a key the sidecar
\* lacks resets the field
SidecarFieldMut(yaml_metadata, key, base) == yaml_metadata.f[key]

\* lines 201-204, 212-215
SidecarField(yaml_metadata, key, base) ==
    IF In(key, yaml_metadata) THEN yaml_metadata.f[key] ELSE base

\* lines 205-211
SidecarTopics(yaml_metadata, base) ==
    IF In("topics", yaml_metadata)
    THEN LET yaml_topics == yaml_metadata.f["topics"]
         IN  CASE yaml_topics.k = "list" -> yaml_topics
               [] yaml_topics.k = "str"  -> PyList(parse_topics_string(yaml_topics.s))
               [] OTHER                  -> base
    ELSE base

\* lines 200-215 on a document that is not a mapping: "key in doc" raises
\* for a value without membership, doc[key] raises for a str or a list
SidecarRaises(yaml_metadata) ==
    /\ Truthy(yaml_metadata)
    /\ yaml_metadata.k # "map"
    /\ \/ InRaises(yaml_metadata)
       \/ \E key \in FieldNames : In(key, yaml_metadata)

\* lines 218-222 with the override ignored
OverrideMut(override, base) == base

\* lines 218-222: override if override else base
Override(override, base) == IF Truthy(override) THEN override ELSE base

NoRecord == [source |-> PyNone, type |-> PyNone, date |-> PyNone,
             original_file |-> <<>>, topics |-> PyNone, summary |-> PyNone]

\* what a call leaves behind: the exception that escaped it (exc), the
\* ContentMetadata it returned (rec), whether generate_metadata_with_llm was
\* called, and what that call raised (llm_exc) or returned (llm_val)
NoRet == [exc |-> "none", rec |-> NoRecord, called |-> FALSE,
          llm_exc |-> "none", llm_val |-> EmptyMap]

\* lines 188, 195-197 as "except ValueError"
ExceptExceptionMut(exc) == IF exc = "ValueError" THEN "none" ELSE exc

\* lines 188, 195-197: "except Exception" absorbs whatever the call raised
ExceptException(exc) == "none"

\* lines 188-197: the classifier's contribution, when the call returns
\* lines 190-194 leaving the inferred source and type in place
ClassifierLayerMut(called, llm, base) ==
    IF called /\ llm.exc = "none" /\ Truthy(llm.val)
    THEN [base EXCEPT !.topics = Get(llm.val, "topics", base.topics),
                      !.summary = Get(llm.val, "summary", base.summary)]
    ELSE base

ClassifierLayer(called, llm, base) ==
    IF called /\ llm.exc = "none" /\ Truthy(llm.val)
    THEN [source  |-> Get(llm.val, "source", base.source),
          type    |-> Get(llm.val, "type", base.type),
          topics  |-> Get(llm.val, "topics", base.topics),
          date    |-> base.date,
          summary |-> Get(llm.val, "summary", base.summary)]
    ELSE base

\* lines 175-180
FilenameLayer(filename) ==
    [source  |-> PyStr(infer_metadata_from_filename(filename).source),
     type    |-> PyStr(infer_metadata_from_filename(filename).type),
     topics  |-> PyList(<<>>),
     date    |-> PyStr(Today),
     summary |-> PyStr(<<>>)]

\* lines 200-215
SidecarLayer(yaml_metadata, base) ==
    IF Truthy(yaml_metadata)
    THEN [source  |-> SidecarField(yaml_metadata, "source", base.source),
          type    |-> SidecarField(yaml_metadata, "type", base.type),
          topics  |-> SidecarTopics(yaml_metadata, base.topics),
          date    |-> SidecarField(yaml_metadata, "date", base.date),
          summary |-> SidecarField(yaml_metadata, "summary", base.summary)]
    ELSE base

\* lines 218-234
OverrideLayer(a, base) ==
    [source  |-> Override(a.source_override, base.source),
     type    |-> Override(a.type_override, base.type),
     date    |-> Override(a.date_override, base.date),
     original_file |-> BaseName(a.filename),
     topics  |-> Override(a.topics, base.topics),
     summary |-> Override(a.summary_override, base.summary)]

\* lines 186-234, once the classifier call (if any) has ended with llm
AfterClassifier(a, loaded, called, llm) ==
    IF loaded.exc # "none"
    THEN [NoRet EXCEPT !.exc = loaded.exc]
    ELSE IF called /\ ExceptException(llm.exc) # "none"
    THEN [NoRet EXCEPT !.exc = ExceptException(llm.exc),
                       !.called = called, !.llm_exc = llm.exc]
    ELSE IF SidecarRaises(loaded.doc)
    THEN [NoRet EXCEPT !.exc = "TypeError", !.called = called, !.llm_exc = llm.exc]
    ELSE [exc |-> "none",
          rec |-> OverrideLayer(a,
                      SidecarLayer(loaded.doc,
                          ClassifierLayer(called, llm, FilenameLayer(a.filename)))),
          called |-> called, llm_exc |-> llm.exc, llm_val |-> llm.val]

\* lines 186-189
AfterSidecar(a, service, loaded, called) ==
    AfterClassifier(a, loaded, called,
        IF called THEN generate_metadata_with_llm(a.content, service)
        ELSE [exc |-> "none", val |-> EmptyMap])

\* lines 183-186
AfterLoad(a, service, loaded) ==
    AfterSidecar(a, service, loaded,
        loaded.exc = "none" /\ CallsClassifier(loaded.doc, a.content, a.use_llm))

extract_metadata(a, e) == AfterLoad(a, e.llm, load_metadata_from_yaml(e.sidecar))

----------------------------------------------------------------------------
(* Inputs *)

T_x     == <<"x">>
T_dot   == <<".", "t", "x", "t">>
T_day   == <<"2","0","2","5","-","0","1","-","0","8">>

Filenames ==
    { T_meeting \o <<"_">> \o T_x \o T_dot,
      <<"d", "/">> \o <<"M","E","M","O","_">> \o T_dot }

SourceOverrides  == {PyNone, PyStr(T_interview), PyStr(T_bogus)}
TypeOverrides    == {PyStr(<<>>), PyStr(T_transcript)}
TopicsOverrides  == {PyNone, PyList(<<Item(T_x)>>)}
DateOverrides    == {PyNone, PyStr(T_day)}
SummaryOverrides == {PyNone, PyStr(T_x \o TextOfLen(LongLen - 1))}
Contents         == {PyNone, PyStr(T_x)}

Args ==
    [filename : Filenames, source_override : SourceOverrides,
     type_override : TypeOverrides, topics : TopicsOverrides,
     date_override : DateOverrides, content : Contents, use_llm : BOOLEAN,
     summary_override : SummaryOverrides]

File(st, doc) == [st |-> st, doc |-> doc]

SidecarDocs ==
    { DocOf(PyNone),
      EmptyMap,
      DocOf(PyInt(<<"4", "2">>)),
      DocOf(PyStr(T_source)),
      DocOf(PyList(<<Item(T_topics)>>)),
      DocMap({"date"}, PyNone, PyNone, PyNone, PyDate(T_day), PyNone),
      DocMap({"date"}, PyNone, PyNone, PyNone, PyNone, PyNone),
      DocMap({"source", "type", "topics", "summary"},
             PyStr(T_bogus), PyStr(T_note),
             PyStr(T_SAP \o <<",", " ">> \o T_BTP), PyNone,
             PyStr(TextOfLen(LongLen))),
      DocMap({"topics", "date", "summary"},
             PyNone, PyNone, PyList(<<Item(T_SAP)>>), PyStr(<<>>), PyStr(T_x)),
      DocMap({"source", "topics"},
             PyStr(T_webinar), PyNone, PyInt(<<"7">>), PyNone, PyNone) }

Sidecars ==
    {File(st, Absent) : st \in {"missing", "oserror", "yamlerror", "decodeerror"}}
        \cup {File("ok", d) : d \in SidecarDocs}

\* a reply text: whitespace, an opening fence, a body, a closing fence
Reply(pre, open, body, close, post) ==
    pre \o open \o <<"\n">> \o body \o <<"\n">> \o close \o post

Service(apikey, fail, reply) == [apikey |-> apikey, fail |-> fail, reply |-> reply]

Services ==
    { Service(FALSE, FALSE, <<>>), Service(TRUE, TRUE, <<>>), Service(TRUE, FALSE, <<>>) }
        \cup { Service(TRUE, FALSE, Reply(<<>>, <<>>, <<b>>, Fence, <<"\n">>)) :
                 b \in {"Y:full", "Y:long", "Y:scalar", "Y:summary-null", "Y:syntax-error"} }
        \cup { Service(TRUE, FALSE, Reply(<<" ">>, FenceYaml, <<"Y:outofset">>, Fence, <<>>)) }

\* nothing rendered yet
NoPage == [exc |-> "none", s |-> <<>>]

\* no Drive folder and no batch run: the metadata functions touch neither
NoDrive == <<>>
NoInv == <<>>
NoNotion == <<>>
NoSvc == <<>>
NoDisk == {}

\* nothing posted, no service process, nothing written
Idle == notion = NoNotion /\ svc = NoSvc /\ disk = NoDisk

NoArgs == [filename |-> <<>>, source_override |-> PyNone, type_override |-> PyNone,
           topics |-> PyNone, date_override |-> PyNone, content |-> PyNone,
           use_llm |-> FALSE, summary_override |-> PyNone]
NoEnv == [sidecar |-> File("missing", Absent), llm |-> Service(FALSE, FALSE, <<>>)]

\* the variables of the metadata functions, which a batch run leaves alone
Quiet == pc = "batch" /\ args = NoArgs /\ env = NoEnv /\ ret = NoRet /\ page = NoPage

----------------------------------------------------------------------------
(* One call of extract_metadata on inputs chosen at the start *)

Init ==
    /\ pc = "start"
    /\ args \in Args
    /\ env \in [sidecar : Sidecars, llm : Services]
    /\ ret = NoRet
    /\ page = NoPage
    /\ drive = NoDrive /\ inv = NoInv /\ Idle

ExtractMetadata ==
    /\ pc = "start"
    /\ pc' = "done"
    /\ ret' = extract_metadata(args, env)
    /\ UNCHANGED <<args, env, page, drive, inv, notion, svc, disk>>

Next == ExtractMetadata

Spec == Init /\ [][Next]_vars

----------------------------------------------------------------------------
(* One call of _parse_llm_metadata_response on a reply chosen at the start *)

ReplyPre   == {<<>>, <<" ">>}
ReplyOpen  == {<<>>, Fence, FenceYaml}
ReplyBody  == {<<>>} \cup {<<b>> : b \in YamlBodies}
ReplyClose == {<<>>, Fence}
ReplyPost  == {<<>>, <<"\n">>}

Replies ==
    {Reply(pre, open, body, close, post) :
        pre \in ReplyPre, open \in ReplyOpen, body \in ReplyBody,
        close \in ReplyClose, post \in ReplyPost}

InitParse ==
    /\ pc = "reply"
    /\ args = NoArgs
    /\ env \in [sidecar : {File("missing", Absent)},
                llm : {Service(TRUE, FALSE, r) : r \in Replies}]
    /\ ret = NoRet
    /\ page = NoPage
    /\ drive = NoDrive /\ inv = NoInv /\ Idle

ParseReply ==
    /\ pc = "reply"
    /\ pc' = "parsed"
    /\ LET r == _parse_llm_metadata_response(env.llm.reply)
       IN  ret' = [NoRet EXCEPT !.exc = r.exc, !.llm_val = r.val]
    /\ UNCHANGED <<args, env, page, drive, inv, notion, svc, disk>>

NextParse == ParseReply

SpecParse == InitParse /\ [][NextParse]_vars

----------------------------------------------------------------------------
(* One call of infer_metadata_from_filename on a name chosen at the start *)

NameDirs ==
    { <<>>, <<"d", "/">>, T_meeting \o <<"_", "/">>,
      <<"c", ":", "\\">> \o T_memo \o <<"_", "\\">>,
      T_webinar \o <<"_", "\\", "d", "/">> }
NameStems ==
    { <<>>, <<"_">>, T_meeting, T_meeting \o <<"_">>,
      <<"M","E","E","T","I","N","G","_">>, <<"I","n","t","e","r","v","i","e","w","_">>,
      T_interview \o <<"_">>, T_memo \o <<"_">>, <<"m","E","m","O","_">>,
      T_memo \o <<"-">>, <<"x">> \o T_memo \o <<"_">>,
      T_webinar \o <<"_">>, <<"W","e","b","I","n","a","r","_">>, T_webinar }
NameRests == { <<>>, T_x \o T_dot, T_webinar \o <<"_">> }

InferNames == {d \o st \o r : d \in NameDirs, st \in NameStems, r \in NameRests}

InitInfer ==
    /\ pc = "name"
    /\ args \in {[NoArgs EXCEPT !.filename = f] : f \in InferNames}
    /\ env = NoEnv
    /\ ret = NoRet
    /\ page = NoPage
    /\ drive = NoDrive /\ inv = NoInv /\ Idle

InferFromFilename ==
    /\ pc = "name"
    /\ pc' = "inferred"
    /\ LET m == infer_metadata_from_filename(args.filename)
       IN  ret' = [NoRet EXCEPT !.rec.source = PyStr(m.source),
                                !.rec.type = PyStr(m.type)]
    /\ UNCHANGED <<args, env, page, drive, inv, notion, svc, disk>>

NextInfer == InferFromFilename

SpecInfer == InitInfer /\ [][NextInfer]_vars

----------------------------------------------------------------------------
(* parse_topics_string on a topics text chosen at the start: called on the *)
(* text itself, or by extract_metadata on a sidecar whose topics value is  *)
(* that text                                                               *)

MaxTopicsLen == 4
TopicChars == {"a", "b", ",", " "}
T_Cloud == <<"C","l","o","u","d">>
T_example == T_SAP \o <<",", " ">> \o T_BTP \o <<" ", ",">> \o T_Cloud

RECURSIVE TextsUpTo(_)
TextsUpTo(n) ==
    IF n = 0 THEN {<<>>}
    ELSE LET shorter == TextsUpTo(n - 1)
         IN  shorter \cup {Append(t, c) : t \in shorter, c \in TopicChars}

TopicsTexts == TextsUpTo(MaxTopicsLen) \cup {T_example, <<"\t", "a", "\n", ",">>}

TopicsSidecar(text) ==
    File("ok", DocMap({"topics"}, PyNone, PyNone, PyStr(text), PyNone, PyNone))

InitTopics ==
    /\ pc = "topics"
    /\ args = [NoArgs EXCEPT !.filename = T_x \o T_dot]
    /\ env \in {[NoEnv EXCEPT !.sidecar = TopicsSidecar(t)] : t \in TopicsTexts}
    /\ ret = NoRet
    /\ page = NoPage
    /\ drive = NoDrive /\ inv = NoInv /\ Idle

\* parse_topics_string(text)
ParseTopicsString ==
    /\ pc = "topics"
    /\ pc' = "split"
    /\ ret' = [NoRet EXCEPT
                  !.rec.topics = PyList(parse_topics_string(env.sidecar.doc.f["topics"].s))]
    /\ UNCHANGED <<args, env, page, drive, inv, notion, svc, disk>>

\* extract_metadata(filename) beside a sidecar holding topics: text
ExtractSidecarTopics ==
    /\ pc = "topics"
    /\ pc' = "sidecar"
    /\ ret' = extract_metadata(args, env)
    /\ UNCHANGED <<args, env, page, drive, inv, notion, svc, disk>>

NextTopics == ParseTopicsString \/ ExtractSidecarTopics

SpecTopics == InitTopics /\ [][NextTopics]_vars

----------------------------------------------------------------------------
(* ContentMetadata.to_yaml_frontmatter and add_frontmatter_to_content on a *)
(* record and a long-form text chosen at the start                         *)

Dash == <<"-", "-", "-">>
NL == <<"\n">>

\* str(v) inside an f-string
Str(v) == IF v.k = "none" THEN <<"N","o","n","e">> ELSE v.s

\* sep.join(items) for items that are all text
RECURSIVE Join(_, _)
Join(items, sep) ==
    IF items = <<>> THEN <<>>
    ELSE IF Len(items) = 1 THEN Head(items)
    ELSE Head(items) \o sep \o Join(Tail(items), sep)

ItemTexts(l) == [i \in 1..Len(l) |-> l[i].s]

\* line 52: ", ".join raises TypeError on an element that is not a str
JoinRaises(m) ==
    /\ Truthy(m.topics)
    /\ \E i \in 1..Len(m.topics.l) : m.topics.l[i].k # "str"

\* lines 51-55
TopicsLine(m) ==
    IF Truthy(m.topics)
    THEN T_topics \o <<":", " ", "[">> \o Join(ItemTexts(m.topics.l), <<",", " ">>) \o <<"]">>
    ELSE T_topics \o <<":", " ", "[", "]">>

\* lines 57-58
SummaryLines(m) ==
    IF Truthy(m.summary) THEN <<T_summary \o <<":", " ">> \o Str(m.summary)>> ELSE <<>>

T_original_file == <<"o","r","i","g","i","n","a","l","_","f","i","l","e">>

\* lines 46-62: the list "lines"
FrontmatterLines(m) ==
    <<Dash,
      T_source \o <<":", " ">> \o Str(m.source),
      T_type \o <<":", " ">> \o Str(m.type),
      T_date \o <<":", " ">> \o Str(m.date),
      TopicsLine(m)>>
    \o SummaryLines(m)
    \o <<T_original_file \o <<":", " ">> \o m.original_file, Dash, <<>>>>

to_yaml_frontmatter(m) ==
    IF JoinRaises(m) THEN [exc |-> "TypeError", s |-> <<>>]
    ELSE [exc |-> "none", s |-> Join(FrontmatterLines(m), NL)]

\* lines 263-264
add_frontmatter_to_content(content, m) ==
    IF to_yaml_frontmatter(m).exc # "none" THEN to_yaml_frontmatter(m)
    ELSE [exc |-> "none", s |-> to_yaml_frontmatter(m).s \o content]

T_Title == <<"#", " ", "T">>

RenderSources   == {PyStr(T_memo), PyStr(T_unknown)}
RenderTopics    == {PyList(<<>>), PyList(<<Item(T_SAP)>>),
                    PyList(<<Item(T_SAP), Item(T_BTP)>>), PyList(<<ItemInt(<<"7">>)>>)}
RenderSummaries == {PyStr(<<>>), PyStr(T_x), PyStr(<<"a", "\n", "b">>)}
RenderFiles     == {T_x \o T_dot, T_meeting \o <<"_">> \o T_x}
RenderContents  == {<<>>, T_Title, NL \o T_Title}

RenderRecords ==
    {[source |-> so, type |-> PyStr(T_note), date |-> PyStr(T_day),
      original_file |-> fi, topics |-> to, summary |-> su] :
        so \in RenderSources, fi \in RenderFiles, to \in RenderTopics,
        su \in RenderSummaries}

InitRender ==
    /\ pc = "record"
    /\ args \in {[NoArgs EXCEPT !.content = PyStr(c)] : c \in RenderContents}
    /\ env = NoEnv
    /\ ret \in {[NoRet EXCEPT !.rec = m] : m \in RenderRecords}
    /\ page = NoPage
    /\ drive = NoDrive /\ inv = NoInv /\ Idle

ToYamlFrontmatter ==
    /\ pc = "record"
    /\ pc' = "rendered"
    /\ page' = to_yaml_frontmatter(ret.rec)
    /\ UNCHANGED <<args, env, ret, drive, inv, notion, svc, disk>>

AddFrontmatterToContent ==
    /\ pc = "record"
    /\ pc' = "prepended"
    /\ page' = add_frontmatter_to_content(args.content.s, ret.rec)
    /\ UNCHANGED <<args, env, ret, drive, inv, notion, svc, disk>>

NextRender == ToYamlFrontmatter \/ AddFrontmatterToContent

SpecRender == InitRender /\ [][NextRender]_vars

----------------------------------------------------------------------------
(* The Drive input folder as GDriveWatcher sees it                         *)

FileIds == {"f1", "f2"}
Kinds == {"blog", "x_post", "linkedin"}

\* files in createdTime order (orderBy of list_new_files)
Created == <<"f1", "f2">>

T_marker == <<"_","p","r","o","c","e","s","s","e","d">>

N_a    == <<"a", ".", "t">>
N_b    == <<"b">>
N_tar  == <<"c", ".", "d", ".", "e">>
N_done == <<"c">> \o T_marker \o <<".", "t">>

\* list_new_files with no name condition in the query
ListableMut(name) == TRUE

\* line 154: not name contains '_processed'
Listable(name) == ~IsSubstr(T_marker, name)

RECURSIVE Select(_, _)
Select(ids, d) ==
    IF ids = <<>> THEN <<>>
    ELSE (IF Listable(d.name[Head(ids)])
          THEN <<[id |-> Head(ids), name |-> d.name[Head(ids)]]>> ELSE <<>>)
         \o Select(Tail(ids), d)

\* the files the query returns, each with the name it has now
list_new_files(d) == Select(Created, d)

\* download_file marking the file when it fetches it
download_fileMut(d, id) == [d EXCEPT !.name[id] = @ \o T_marker]

\* download_file reads the file and changes nothing in the folder
download_file(d, id) == d

\* upload_file creates one more output file of the kind for the input file
upload_file(d, id, kind) == [d EXCEPT !.up[id][kind] = @ + 1]

Dots(name) == {i \in 1..Len(name) : name[i] = "."}

\* lines 236-240: original_name.rsplit(".", 1) and the new name
MarkedName(original_name) ==
    IF Dots(original_name) = {} THEN original_name \o T_marker
    ELSE Take(original_name, Highest(Dots(original_name)) - 1) \o T_marker
         \o <<".">> \o Drop(original_name, Highest(Dots(original_name)))

\* lines 242-244: the file gets the name computed from the listed name
mark_as_processed(d, id, original_name) ==
    [d EXCEPT !.name[id] = MarkedName(original_name)]

NoUploads == [id \in FileIds |-> [kind \in Kinds |-> 0]]

\* the credentials and identifiers a run reads from its environment
Creds == {"drive", "llm", "notion"}

\* the folder at the start; missing names the credential that is not set
Folder(names) == [name |-> names, orig |-> names, up |-> NoUploads, missing |-> "none"]

----------------------------------------------------------------------------
(* The notifier                                                            *)

\* what can go wrong when a notification is sent: nothing, no webhook URL
\* (ValueError), a refused or failed request (URLError), an error status
\* (HTTPError), or a timeout while the response is read (TimeoutError)
Faults == {"none", "ValueError", "URLError", "HTTPError", "TimeoutError"}

\* lines 146-160: the exception that leaves _send_webhook
SendWebhookRaises(fault) ==
    IF fault \in {"URLError", "HTTPError"} THEN "none" ELSE fault

\* lines 180-186: the exception that leaves notify_error
notify_error(fault) ==
    IF SendWebhookRaises(fault) = "ValueError" THEN "none" ELSE SendWebhookRaises(fault)

\* notify_review: every failure is swallowed
notify_review(fault) == "none"

----------------------------------------------------------------------------
(* cloud_function.main: batch runs r1 and r2 over the input folder.  Each  *)
(* run is at one step (pc) of main; the calls on Drive, the generator and  *)
(* the notifier either succeed or raise                                    *)

Invs == {"r1", "r2"}

metaVars == <<pc, args, env, ret, page, notion, svc, disk>>

\* lines 36-40: results before the run; attempted is the list of the files
\* the loop has taken up, exc the origin of the exception being handled
\* did lists the steps completed for the current file, reraised tells that
\* main ended at its raise statement, status is the HTTP answer
Run0 == [pc |-> "idle", listing |-> <<>>, idx |-> 0, attempted |-> <<>>,
         processed |-> <<>>, errors |-> <<>>, exc |-> "none",
         did |-> <<>>, reraised |-> FALSE, status |-> 0]

Ended == {"returned", "raised"}

At(p, here) == inv[p].pc = here
Go(p, next) == [inv EXCEPT ![p].pc = next]
Throw(p, handler, origin) == [inv EXCEPT ![p].pc = handler, ![p].exc = origin]
Done(p, here, next) == [inv EXCEPT ![p].pc = next, ![p].did = Append(@, here)]

\* file_info of the current iteration (lines 59-61)
Cur(p) == inv[p].listing[inv[p].idx]

\* a call inside the per-file try block (line 65) that touches only local
\* state: it returns, or raises into the handler of line 157
LocalStep(p, here, next) ==
    /\ At(p, here)
    /\ inv' = Done(p, here, next) \/ inv' = Throw(p, "file_except", "step")
    /\ UNCHANGED drive
    /\ UNCHANGED metaVars

\* a Drive call inside the per-file try block: it takes effect and returns,
\* or raises into the handler of line 157 leaving the folder as it was
DriveStep(p, here, next, d) ==
    /\ At(p, here)
    /\ \/ inv' = Done(p, here, next) /\ drive' = d
       \/ inv' = Throw(p, "file_except", "step") /\ UNCHANGED drive
    /\ UNCHANGED metaVars

\* a constructor before the loop: it returns, which takes its credential,
\* or raises into the handler of line 199
SetupStep(p, here, next, cred) ==
    /\ At(p, here)
    /\ \/ drive.missing # cred /\ inv' = Go(p, next)
       \/ inv' = Throw(p, "system_except", "init")
    /\ UNCHANGED drive
    /\ UNCHANGED metaVars

\* main is called while no other run is under way (r1 first)
StartRun(p) ==
    /\ At(p, "idle")
    /\ p = "r1" \/ inv["r1"].pc \in Ended
    /\ inv' = Go(p, "watcher")
    /\ UNCHANGED drive
    /\ UNCHANGED metaVars

\* main is called whatever the other run is doing
StartInvocation(p) ==
    /\ At(p, "idle")
    /\ inv' = Go(p, "watcher")
    /\ UNCHANGED drive
    /\ UNCHANGED metaVars

\* line 45
ConstructWatcher(p) == SetupStep(p, "watcher", "list", "drive")

\* lines 50-53
ListNewFiles(p) ==
    /\ At(p, "list")
    /\ \/ inv' = [inv EXCEPT ![p].listing = list_new_files(drive),
                              ![p].pc = IF list_new_files(drive) = <<>>
                                        THEN "promote" ELSE "processor"]
       \/ inv' = Throw(p, "system_except", "init")
    /\ UNCHANGED drive
    /\ UNCHANGED metaVars

\* line 56
ConstructProcessor(p) == SetupStep(p, "processor", "loop", "llm")

\* lines 59-63: the loop takes the next file, or ends
NextFile(p) ==
    /\ At(p, "loop")
    /\ inv' = IF inv[p].idx < Len(inv[p].listing)
              THEN [inv EXCEPT ![p].idx = @ + 1,
                               ![p].attempted =
                                   Append(@, inv[p].listing[inv[p].idx + 1].id),
                               ![p].pc = "download"]
              ELSE Go(p, "promote")
    /\ UNCHANGED drive
    /\ UNCHANGED metaVars

\* line 72
DownloadFile(p) == DriveStep(p, "download", "read", download_file(drive, Cur(p).id))
\* line 77
ReadFile(p) == LocalStep(p, "read", "gen_blog")
\* line 82
GenerateBlog(p) == LocalStep(p, "gen_blog", "gen_x_post")
\* line 86
GenerateXPost(p) == LocalStep(p, "gen_x_post", "gen_linkedin")
\* line 90 going straight to line 100
GenerateLinkedinMut(p) == LocalStep(p, "gen_linkedin", "frontmatter")
\* line 90
GenerateLinkedin(p) == LocalStep(p, "gen_linkedin", "resolve")
\* lines 95-99
ResolveMetadata(p) == LocalStep(p, "resolve", "frontmatter")
\* line 100
AddFrontmatter(p) == LocalStep(p, "frontmatter", "save")
\* lines 104-110
SaveOutputs(p) == LocalStep(p, "save", "up_blog")
\* lines 121-142 going from the first upload straight to the rename
UploadBlogMut(p) ==
    DriveStep(p, "up_blog", "mark", upload_file(drive, Cur(p).id, "blog"))

\* lines 121-125
UploadBlog(p) ==
    DriveStep(p, "up_blog", "up_x_post", upload_file(drive, Cur(p).id, "blog"))
\* lines 127-131
UploadXPost(p) ==
    DriveStep(p, "up_x_post", "up_linkedin", upload_file(drive, Cur(p).id, "x_post"))
\* lines 133-137
UploadLinkedin(p) ==
    DriveStep(p, "up_linkedin", "mark", upload_file(drive, Cur(p).id, "linkedin"))
\* line 142
MarkAsProcessed(p) ==
    DriveStep(p, "mark", "notify_review",
              mark_as_processed(drive, Cur(p).id, Cur(p).name))

\* lines 146-150
NotifyReview(p) ==
    /\ At(p, "notify_review")
    /\ \E fault \in Faults :
          inv' = IF notify_review(fault) = "none" THEN Go(p, "record")
                 ELSE Throw(p, "file_except", "notify")
    /\ UNCHANGED drive
    /\ UNCHANGED metaVars

\* lines 152-155
RecordProcessed(p) ==
    /\ At(p, "record")
    /\ inv' = [inv EXCEPT ![p].processed = Append(@, Cur(p).id), ![p].pc = "loop",
                          ![p].did = <<>>]
    /\ UNCHANGED drive
    /\ UNCHANGED metaVars

ErrorInfo(file, type) == [file |-> file, type |-> type]

\* lines 157-171: the error is recorded, then notify_error is called inside
\* the handler; what notify_error raises leaves the loop for line 199
FileExcept(p) ==
    /\ At(p, "file_except")
    /\ \E fault \in Faults :
          inv' = [inv EXCEPT
                     ![p].errors = Append(@, ErrorInfo(Cur(p).id, "file_error")),
                     ![p].did = <<>>,
                     ![p].pc = IF notify_error(fault) = "none"
                               THEN "loop" ELSE "system_except",
                     ![p].exc = IF notify_error(fault) = "none"
                                THEN "none" ELSE "notify"]
    /\ UNCHANGED drive
    /\ UNCHANGED metaVars

\* lines 176-185 and approval_watcher.py line 170: ApprovalWatcher() is
\* constructed, which takes the workspace-tool credentials
ConstructApproval(p) ==
    /\ At(p, "promote")
    /\ \/ drive.missing # "notion" /\ inv' = Go(p, "approved")
       \/ inv' = Throw(p, "promote_except", "promoter")
    /\ UNCHANGED drive
    /\ UNCHANGED metaVars

\* lines 185-187 and approval_watcher.py line 171: process_approved_files
\* returns its results, or raises
ProcessApproved(p) ==
    /\ At(p, "approved")
    /\ inv' = Go(p, "return") \/ inv' = Throw(p, "promote_except", "promoter")
    /\ UNCHANGED drive
    /\ UNCHANGED metaVars

\* lines 188-197: the promoter's error is recorded and notified
PromoteExcept(p) ==
    /\ At(p, "promote_except")
    /\ \E fault \in Faults :
          inv' = [inv EXCEPT
                     ![p].errors = Append(@, ErrorInfo("-", "notion_error")),
                     ![p].pc = IF notify_error(fault) = "none"
                               THEN "return" ELSE "system_except",
                     ![p].exc = IF notify_error(fault) = "none"
                                THEN "none" ELSE "notify"]
    /\ UNCHANGED drive
    /\ UNCHANGED metaVars

\* lines 199-214: the error is recorded and notified, then main raises (the
\* exception it caught, or the one notify_error raised)
SystemExcept(p) ==
    /\ At(p, "system_except")
    /\ \E fault \in Faults :
          inv' = [inv EXCEPT
                     ![p].errors = Append(@, ErrorInfo("-", "system_error")),
                     ![p].pc = "raised",
                     ![p].reraised = (notify_error(fault) = "none"),
                     ![p].exc = IF notify_error(fault) = "none" THEN @ ELSE "notify"]
    /\ UNCHANGED drive
    /\ UNCHANGED metaVars

\* line 216
Return(p) ==
    /\ At(p, "return")
    /\ inv' = Go(p, "returned")
    /\ UNCHANGED drive
    /\ UNCHANGED metaVars

\* main.py lines 104-113: the HTTP handler answers 200 with the result main
\* returned, 500 when main raised
Respond(p) ==
    /\ inv[p].pc \in Ended /\ inv[p].status = 0
    /\ inv' = [inv EXCEPT ![p].status = IF inv[p].pc = "returned" THEN 200 ELSE 500]
    /\ UNCHANGED drive
    /\ UNCHANGED metaVars

RunStep(p) ==
    \/ ConstructWatcher(p) \/ ListNewFiles(p) \/ ConstructProcessor(p)
    \/ NextFile(p) \/ DownloadFile(p) \/ ReadFile(p)
    \/ GenerateBlog(p) \/ GenerateXPost(p) \/ GenerateLinkedin(p)
    \/ ResolveMetadata(p) \/ AddFrontmatter(p) \/ SaveOutputs(p)
    \/ UploadBlog(p) \/ UploadXPost(p) \/ UploadLinkedin(p)
    \/ MarkAsProcessed(p) \/ NotifyReview(p) \/ RecordProcessed(p)
    \/ FileExcept(p) \/ ConstructApproval(p) \/ ProcessApproved(p)
    \/ PromoteExcept(p) \/ SystemExcept(p) \/ Return(p) \/ Respond(p)

BatchFolders ==
    {Folder([id \in FileIds |-> IF id = "f1" THEN n1 ELSE n2]) :
        n1 \in {N_a, N_tar}, n2 \in {N_b, N_done}}
    \cup {[Folder([id \in FileIds |-> IF id = "f1" THEN N_a ELSE N_done])
              EXCEPT !.missing = cred] : cred \in Creds}

InitBatch ==
    /\ Quiet /\ Idle
    /\ drive \in BatchFolders
    /\ inv = [p \in Invs |-> Run0]

NextBatch == \E p \in Invs : StartRun(p) \/ RunStep(p)

\* runs one after the other
SpecBatch == InitBatch /\ [][NextBatch]_vars

InitConcurrent ==
    /\ Quiet /\ Idle
    /\ drive = Folder([id \in FileIds |-> IF id = "f1" THEN N_a ELSE N_done])
    /\ inv = [p \in Invs |-> Run0]

NextConcurrent == \E p \in Invs : StartInvocation(p) \/ RunStep(p)

\* two invocations at once
SpecConcurrent == InitConcurrent /\ [][NextConcurrent]_vars

----------------------------------------------------------------------------
(* approval_watcher.process_approved_files: promoter runs r1 and r2 over   *)
(* the approved folder.  drive.parent is the folder each file is in and    *)
(* notion counts the pages created from each file                          *)

NoPages == [id \in FileIds |-> 0]

RECURSIVE InFolder(_, _, _)
InFolder(ids, d, folder) ==
    IF ids = <<>> THEN <<>>
    ELSE (IF d.parent[Head(ids)] = folder THEN <<Head(ids)>> ELSE <<>>)
         \o InFolder(Tail(ids), d, folder)

\* lines 63-79: the files whose parent is the approved folder, oldest first
list_approved_files(d) == InFolder(Created, d, "approved")

\* lines 96-101: the posted folder becomes the parent
move_to_posted(d, id) == [d EXCEPT !.parent[id] = "posted"]

\* notion_publisher.py lines 290-296: pages.create makes one more page
create_page(n, id) == [n EXCEPT ![id] = @ + 1]

\* notify_notion_success and notify_notion_error: every failure is swallowed
notify_notion_success(fault) == "none"
notify_notion_error(fault) == "none"

\* line 109
Promoter0 == [pc |-> "idle", listing |-> <<>>, idx |-> 0, results |-> <<>>]

Result(id, status) == [file |-> id, status |-> status]

\* file_id of the current iteration (lines 112-113)
Approved(p) == inv[p].listing[inv[p].idx]

Quit(p, next) == /\ inv' = Go(p, next)
                 /\ UNCHANGED <<pc, args, env, ret, page, drive, notion, svc, disk>>

\* process_approved_files is called while no other run is under way
StartPromoter(p) ==
    /\ At(p, "idle")
    /\ p = "r1" \/ inv["r1"].pc \in Ended
    /\ Quit(p, "list_approved")

\* line 110: the listing, or the exception of the Drive call leaves the method
ListApprovedFiles(p) ==
    /\ At(p, "list_approved")
    /\ \/ inv' = [inv EXCEPT ![p].listing = list_approved_files(drive),
                              ![p].pc = "next_approved"]
       \/ inv' = Go(p, "raised")
    /\ UNCHANGED <<pc, args, env, ret, page, drive, notion, svc, disk>>

\* line 112: the loop takes the next file, or line 161 returns the results
NextApproved(p) ==
    /\ At(p, "next_approved")
    /\ inv' = IF inv[p].idx < Len(inv[p].listing)
              THEN [inv EXCEPT ![p].idx = @ + 1, ![p].pc = "fetch"]
              ELSE Go(p, "returned")
    /\ UNCHANGED <<pc, args, env, ret, page, drive, notion, svc, disk>>

\* lines 118-124: download_file and the read of the local copy
FetchApproved(p) ==
    /\ At(p, "fetch")
    /\ Quit(p, "create_page") \/ Quit(p, "approved_except")

\* line 130: the page is created, or the call raises and creates none
CreatePage(p) ==
    /\ At(p, "create_page")
    /\ \/ inv' = Go(p, "move") /\ notion' = create_page(notion, Approved(p))
       \/ inv' = Go(p, "approved_except") /\ UNCHANGED notion
    /\ UNCHANGED <<pc, args, env, ret, page, drive, svc, disk>>

\* line 133: the file is moved, or the call raises and the file stays
MoveToPosted(p) ==
    /\ At(p, "move")
    /\ \/ inv' = Go(p, "notify_success") /\ drive' = move_to_posted(drive, Approved(p))
       \/ inv' = Go(p, "approved_except") /\ UNCHANGED drive
    /\ UNCHANGED <<pc, args, env, ret, page, notion, svc, disk>>

\* lines 136-146
NotifySuccess(p) ==
    /\ At(p, "notify_success")
    /\ \E fault \in Faults :
          inv' = IF notify_notion_success(fault) = "none"
                 THEN [inv EXCEPT ![p].results = Append(@, Result(Approved(p), "success")),
                                  ![p].pc = "next_approved"]
                 ELSE Go(p, "approved_except")
    /\ UNCHANGED <<pc, args, env, ret, page, drive, notion, svc, disk>>

\* lines 148-159: the error is notified and recorded; what the notification
\* raises leaves the method
ApprovedExcept(p) ==
    /\ At(p, "approved_except")
    /\ \E fault \in Faults :
          inv' = IF notify_notion_error(fault) = "none"
                 THEN [inv EXCEPT ![p].results = Append(@, Result(Approved(p), "error")),
                                  ![p].pc = "next_approved"]
                 ELSE Go(p, "raised")
    /\ UNCHANGED <<pc, args, env, ret, page, drive, notion, svc, disk>>

PromoterStep(p) ==
    \/ StartPromoter(p) \/ ListApprovedFiles(p) \/ NextApproved(p)
    \/ FetchApproved(p) \/ CreatePage(p) \/ MoveToPosted(p)
    \/ NotifySuccess(p) \/ ApprovedExcept(p)

\* each file is in the approved folder or in the output folder, unposted
InitPromote ==
    /\ Quiet /\ svc = NoSvc /\ disk = NoDisk
    /\ drive \in {[parent |-> f] : f \in [FileIds -> {"approved", "output"}]}
    /\ notion = NoPages
    /\ inv = [p \in Invs |-> Promoter0]

NextPromote == \E p \in Invs : PromoterStep(p)

\* promoter runs one after the other
SpecPromote == InitPromote /\ [][NextPromote]_vars

----------------------------------------------------------------------------
(* The service entrypoint (main.py): requests r1 and r2 to one process.    *)
(* svc holds the module globals of lines 33-35, the outcome the import of  *)
(* cloud_function has in this deployment, and two counters; each request   *)
(* is at one statement of its handler                                      *)

T_no_module == <<"N","o"," ","m","o","d","u","l","e">>

\* what the import of cloud_function does: it succeeds, or raises an
\* exception whose str() is the message (which may be empty)
ImportOutcomes ==
    {[ok |-> TRUE, msg |-> <<>>]} \cup {[ok |-> FALSE, msg |-> m] : m \in {T_no_module, <<>>}}

\* lines 33-35
Globals(outcome) ==
    [import_attempted |-> FALSE, import_error |-> PyNone, cloud_function_main |-> FALSE,
     outcome |-> outcome, imports |-> 0, calls |-> 0]

Routes == {"/", "/health", "/debug"}

Request0 == [pc |-> "idle", route |-> "-", status |-> 0, error |-> PyNone]

Answer(p, status, error) ==
    [inv EXCEPT ![p].pc = "answered", ![p].status = status, ![p].error = error]

T_not_loaded == <<"n","o","t"," ","l","o","a","d","e","d">>
T_main_failed == <<"m","a","i","n">>

Handle(p, here, next) ==
    /\ At(p, here)
    /\ inv' = next
    /\ UNCHANGED <<pc, args, env, ret, page, drive, notion, svc, disk>>

\* a request arrives once the earlier one was answered
Receive(p) ==
    /\ p = "r1" \/ inv["r1"].pc = "answered"
    /\ \E route \in Routes : Handle(p, "idle", [inv EXCEPT ![p].pc = route, ![p].route = route])

\* a request arrives whatever the other request is doing
ReceiveAny(p) ==
    \E route \in Routes : Handle(p, "idle", [inv EXCEPT ![p].pc = route, ![p].route = route])

\* lines 57-61
Health(p) == Handle(p, "/health", Answer(p, 200, PyNone))

\* lines 64-76
Debug(p) == Handle(p, "/debug", Answer(p, 200, PyNone))

\* lines 85 and 42-43: if _import_attempted: return
LazyImportGuard(p) ==
    Handle(p, "/", Go(p, IF svc.import_attempted THEN "if_import_error" ELSE "set_attempted"))

\* line 45
SetAttempted(p) ==
    /\ At(p, "set_attempted")
    /\ inv' = Go(p, "import")
    /\ svc' = [svc EXCEPT !.import_attempted = TRUE]
    /\ UNCHANGED <<pc, args, env, ret, page, drive, notion, disk>>

\* lines 47-54: the import returns and the function is kept, or it raises
\* and str(e) is kept
Import(p) ==
    /\ At(p, "import")
    /\ inv' = Go(p, "if_import_error")
    /\ svc' = IF svc.outcome.ok
              THEN [svc EXCEPT !.cloud_function_main = TRUE, !.imports = @ + 1]
              ELSE [svc EXCEPT !.import_error = PyStr(svc.outcome.msg), !.imports = @ + 1]
    /\ UNCHANGED <<pc, args, env, ret, page, drive, notion, disk>>

\* lines 92-96: if _import_error
IfImportError(p) ==
    Handle(p, "if_import_error",
           IF Truthy(svc.import_error) THEN Answer(p, 500, svc.import_error)
           ELSE Go(p, "if_not_loaded"))

\* lines 98-102: if _cloud_function_main is None
IfNotLoaded(p) ==
    Handle(p, "if_not_loaded",
           IF ~svc.cloud_function_main THEN Answer(p, 500, PyStr(T_not_loaded))
           ELSE Go(p, "call"))

\* lines 104-113: main returns a result, or raises
CallMain(p) ==
    /\ At(p, "call")
    /\ inv' = Answer(p, 200, PyNone) \/ inv' = Answer(p, 500, PyStr(T_main_failed))
    /\ svc' = [svc EXCEPT !.calls = @ + 1]
    /\ UNCHANGED <<pc, args, env, ret, page, drive, notion, disk>>

ServiceStep(p) ==
    \/ Health(p) \/ Debug(p) \/ LazyImportGuard(p) \/ SetAttempted(p)
    \/ Import(p) \/ IfImportError(p) \/ IfNotLoaded(p) \/ CallMain(p)

InitService ==
    /\ Quiet /\ drive = NoDrive /\ notion = NoNotion /\ disk = NoDisk
    /\ svc \in {Globals(outcome) : outcome \in ImportOutcomes}
    /\ inv = [p \in Invs |-> Request0]

NextService == \E p \in Invs : Receive(p) \/ ServiceStep(p)

\* requests one after the other
SpecService == InitService /\ [][NextService]_vars

NextThreads == \E p \in Invs : ReceiveAny(p) \/ ServiceStep(p)

\* requests handled by threads of one process
SpecThreads == InitService /\ [][NextThreads]_vars

----------------------------------------------------------------------------
(* echo-me.py main: the command-line run r1 over one input file, followed  *)
(* by a batch run r2.  disk is the set of output files the command-line    *)
(* run has written                                                         *)

\* reader.py get_supported_extensions
SupportedExtensions == {".txt", ".md", ".docx", ".pdf"}

Extensions == {".txt", ".pdf", ".csv"}

\* the command line and the environment of the run: whether the input file
\* exists, its extension, whether the generator's key is set
CliInputs == [exists : BOOLEAN, ext : Extensions, key : BOOLEAN]

\* code is the exit status of the process, -1 while it runs
Cli0(input) == [pc |-> "exists", input |-> input, did |-> <<>>, exc |-> "none", code |-> -1]

Exit(p, code, origin) ==
    [inv EXCEPT ![p].pc = "exited", ![p].code = code, ![p].exc = origin]

\* a statement of main: it completes, or ends the process with status 1
CliStep(p, here, next, origin) ==
    /\ At(p, here)
    /\ inv' = Done(p, here, next) \/ inv' = Exit(p, 1, origin)
    /\ UNCHANGED <<pc, args, env, ret, page, drive, notion, svc, disk>>

\* lines 101-103
CheckExists(p) ==
    /\ At(p, "exists")
    /\ inv' = IF inv[p].input.exists THEN Go(p, "extension") ELSE Exit(p, 1, "missing")
    /\ UNCHANGED <<pc, args, env, ret, page, drive, notion, svc, disk>>

\* lines 106-113
CheckExtension(p) ==
    /\ At(p, "extension")
    /\ inv' = IF inv[p].input.ext \in SupportedExtensions
              THEN Go(p, "read") ELSE Exit(p, 1, "unsupported")
    /\ UNCHANGED <<pc, args, env, ret, page, drive, notion, svc, disk>>

\* lines 118-123
CliReadFile(p) == CliStep(p, "read", "resolve", "read")

\* lines 126-139: the sidecar is loaded and extract_metadata called, outside
\* any try block
CliResolveMetadata(p) == CliStep(p, "resolve", "processor", "uncaught")

\* lines 145-149 with a handler that ends the run with status 0
CliConstructProcessorMut(p) ==
    /\ At(p, "processor")
    /\ inv' = IF inv[p].input.key THEN Go(p, "gen_blog") ELSE Exit(p, 0, "credential")
    /\ UNCHANGED <<pc, args, env, ret, page, drive, notion, svc, disk>>

\* lines 145-149: LLMProcessor() raises ValueError when the key is not set
CliConstructProcessor(p) ==
    /\ At(p, "processor")
    /\ inv' = IF inv[p].input.key THEN Go(p, "gen_blog") ELSE Exit(p, 1, "credential")
    /\ UNCHANGED <<pc, args, env, ret, page, drive, notion, svc, disk>>

\* line 154
CliGenerateBlog(p) == CliStep(p, "gen_blog", "gen_x_post", "generation")
\* line 157
CliGenerateXPost(p) == CliStep(p, "gen_x_post", "gen_linkedin", "generation")
\* line 160
CliGenerateLinkedin(p) == CliStep(p, "gen_linkedin", "frontmatter", "generation")
\* line 167, outside any try block
CliAddFrontmatter(p) == CliStep(p, "frontmatter", "save", "uncaught")

KindOrder == <<"blog", "x_post", "linkedin">>

\* formatter.py lines 62-64: the files written when the first n writes succeed
Written(n) == {KindOrder[i] : i \in 1..n}

\* lines 170-187 and formatter.py lines 59-64: the three files are written
\* in turn and main returns 0; a failing write ends the run with status 1
\* and leaves the files written before it
CliSaveOutputs(p) ==
    /\ At(p, "save")
    /\ \E n \in 0..Len(KindOrder) :
          /\ disk' = disk \cup Written(n)
          /\ inv' = IF n = Len(KindOrder)
                    THEN [Done(p, "save", "exited") EXCEPT ![p].code = 0]
                    ELSE Exit(p, 1, "write")
    /\ UNCHANGED <<pc, args, env, ret, page, drive, notion, svc>>

CliRun(p) ==
    \/ CheckExists(p) \/ CheckExtension(p) \/ CliReadFile(p)
    \/ CliResolveMetadata(p) \/ CliConstructProcessor(p)
    \/ CliGenerateBlog(p) \/ CliGenerateXPost(p) \/ CliGenerateLinkedin(p)
    \/ CliAddFrontmatter(p) \/ CliSaveOutputs(p)

\* the batch run is started once the command-line run has exited
StartAfterCli(p) ==
    /\ At(p, "idle")
    /\ inv["r1"].pc = "exited"
    /\ inv' = Go(p, "watcher")
    /\ UNCHANGED drive
    /\ UNCHANGED metaVars

InitPaths ==
    /\ Quiet /\ notion = NoNotion /\ svc = NoSvc /\ disk = NoDisk
    /\ drive \in BatchFolders
    /\ inv \in {[p \in Invs |-> IF p = "r1" THEN Cli0(input) ELSE Run0] : input \in CliInputs}

NextPaths == CliRun("r1") \/ StartAfterCli("r2") \/ RunStep("r2")

\* the command-line path and the batch path
SpecPaths == InitPaths /\ [][NextPaths]_vars

----------------------------------------------------------------------------
(* Properties of extract_metadata (Spec) *)

Returned == pc = "done" /\ ret.exc = "none"

OverrideOf(key) ==
    CASE key = "source"  -> args.source_override
      [] key = "type"    -> args.type_override
      [] key = "topics"  -> args.topics
      [] key = "date"    -> args.date_override
      [] key = "summary" -> args.summary_override

RecField(key) ==
    CASE key = "source"  -> ret.rec.source
      [] key = "type"    -> ret.rec.type
      [] key = "topics"  -> ret.rec.topics
      [] key = "date"    -> ret.rec.date
      [] key = "summary" -> ret.rec.summary

NoOverrides == \A key \in FieldNames : ~Truthy(OverrideOf(key))

\* the sidecar file holds a mapping
SidecarIsMap == env.sidecar.st = "ok" /\ env.sidecar.doc.k = "map"

\* C1: every returned record has source and type in their enumerated sets
C1_EnumeratedFields ==
    Returned =>
        /\ ret.rec.source.k = "str" /\ ret.rec.source.s \in valid_sources
        /\ ret.rec.type.k = "str" /\ ret.rec.type.s \in valid_types

\* C2: a non-empty override of a field is the returned value of that field
C2_OverrideWins ==
    Returned =>
        \A key \in FieldNames :
            Truthy(OverrideOf(key)) => RecField(key) = OverrideOf(key)

C2_Witness ==
    /\ Returned
    /\ SidecarIsMap
    /\ \A key \in FieldNames : Truthy(OverrideOf(key))
    /\ \A key \in {"source", "summary", "topics"} :
          /\ key \in env.sidecar.doc.keys
          /\ env.sidecar.doc.f[key] # OverrideOf(key)

\* the value the sidecar supplies for a field
SidecarSupplies(key) ==
    /\ SidecarIsMap
    /\ key \in env.sidecar.doc.keys
    /\ key = "topics" => env.sidecar.doc.f[key].k \in {"list", "str"}

SidecarValue(key) ==
    LET v == env.sidecar.doc.f[key]
    IN  IF key = "topics" /\ v.k = "str" THEN PyList(parse_topics_string(v.s)) ELSE v

ClassifierSupplies(key) ==
    ret.called /\ ret.llm_exc = "none" /\ key # "date"

LowestLayer(key) ==
    CASE key = "source"  -> PyStr(infer_metadata_from_filename(args.filename).source)
      [] key = "type"    -> PyStr(infer_metadata_from_filename(args.filename).type)
      [] key = "topics"  -> PyList(<<>>)
      [] key = "date"    -> PyStr(Today)
      [] key = "summary" -> PyStr(<<>>)

\* C3: each field comes from the highest layer that supplies that field
\* (override > sidecar > classifier > filename/default), whatever the other
\* fields come from; with a sidecar of only date and an override of only
\* source, date is the sidecar's, source the override's, type and topics the
\* filename layer's
C3_FieldByField ==
    Returned =>
        /\ \A key \in FieldNames :
              RecField(key) =
                  IF Truthy(OverrideOf(key)) THEN OverrideOf(key)
                  ELSE IF SidecarSupplies(key) THEN SidecarValue(key)
                  ELSE IF ClassifierSupplies(key) THEN ret.llm_val.f[key]
                  ELSE LowestLayer(key)
        /\ ( /\ SidecarIsMap /\ env.sidecar.doc.keys = {"date"}
             /\ Truthy(args.source_override)
             /\ \A key \in FieldNames \ {"source"} : ~Truthy(OverrideOf(key)) )
           => /\ ret.rec.date = env.sidecar.doc.f["date"]
              /\ ret.rec.source = args.source_override
              /\ ret.rec.type = LowestLayer("type")
              /\ ret.rec.topics = PyList(<<>>)

C3_Witness ==
    /\ Returned
    /\ SidecarIsMap /\ env.sidecar.doc.keys = {"date"}
    /\ Truthy(env.sidecar.doc.f["date"])
    /\ args.source_override = PyStr(T_interview)
    /\ \A key \in FieldNames \ {"source"} : ~Truthy(OverrideOf(key))
    /\ ret.rec.date = PyDate(T_day)
    /\ ret.rec.type = PyStr(T_minutes)

C5_ClassifierFailureAbsorbed ==
    pc = "done" /\ ret.called /\ ret.llm_exc # "none" =>
        /\ ret.exc = "none"
        /\ NoOverrides =>
              \A key \in FieldNames : RecField(key) = LowestLayer(key)

C5_Witness ==
    /\ Returned
    /\ ret.called /\ ret.llm_exc = "AttributeError"
    /\ NoOverrides
    /\ ret.rec.source = PyStr(T_meeting) /\ ret.rec.type = PyStr(T_minutes)
    /\ ret.rec.topics = PyList(<<>>) /\ ret.rec.summary = PyStr(<<>>)

\* C6: the date of every returned record is present
C6_DatePresent ==
    Returned => ret.rec.date.k \in {"str", "date"} /\ ret.rec.date.s # <<>>

\* C7: the summary of every returned record is at most 50 characters long
C7_SummaryCapped ==
    Returned => ret.rec.summary.k = "str" /\ Len(ret.rec.summary.s) <= SummaryCap

\* C8: a sidecar that is missing or is not a mapping never makes
\* extract_metadata raise
C8_SidecarNeverAborts ==
    pc = "done" /\ ~SidecarIsMap => ret.exc = "none"

----------------------------------------------------------------------------
(* Properties of _parse_llm_metadata_response (SpecParse) *)

\* C9: for every reply the parser returns a map with the keys source, type,
\* topics and summary, and never raises
C9_ParserNeverRaises ==
    pc = "parsed" =>
        /\ ret.exc = "none"
        /\ ret.llm_val.keys = {"source", "type", "topics", "summary"}

ParserReturned == pc = "parsed" /\ ret.exc = "none"

\* the document the reply parses to
RawReply == ParsedReply(env.llm.reply)

\* the reply gives key a value of the enumerated set
ReplyInSet(key, valid) ==
    key \in RawReply.keys /\ RawReply.f[key].k = "str" /\ RawReply.f[key].s \in valid

\* C11: the parser's source and type are in their enumerated sets: a value
\* of the set is kept, any other or a missing one becomes unknown / general
C11_ParserEnumerated ==
    ParserReturned =>
        /\ ret.llm_val.f["source"].k = "str"
        /\ ret.llm_val.f["source"].s \in valid_sources
        /\ ret.llm_val.f["type"].k = "str"
        /\ ret.llm_val.f["type"].s \in valid_types
        /\ ret.llm_val.f["source"] =
              IF ReplyInSet("source", valid_sources) THEN RawReply.f["source"]
              ELSE PyStr(T_unknown)
        /\ ret.llm_val.f["type"] =
              IF ReplyInSet("type", valid_types) THEN RawReply.f["type"]
              ELSE PyStr(T_general)

C11_Witness ==
    /\ ParserReturned
    /\ "source" \in RawReply.keys /\ RawReply.f["source"] = PyStr(T_bogus)
    /\ "type" \in RawReply.keys /\ RawReply.f["type"] = PyStr(T_bogus)
    /\ ret.llm_val.f["source"] = PyStr(T_unknown)
    /\ ret.llm_val.f["type"] = PyStr(T_general)

\* C12: a summary of more than 50 characters comes back as its first 47
\* characters followed by "...", 50 characters in all; a shorter one comes
\* back unchanged
C12_ParserSummaryCap ==
    ParserReturned /\ Get(RawReply, "summary", PyStr(<<>>)).k = "str" =>
        LET raw == Get(RawReply, "summary", PyStr(<<>>)).s
            out == ret.llm_val.f["summary"]
        IN  /\ out.k = "str"
            /\ Len(out.s) <= 50
            /\ Len(raw) <= 50 => out.s = raw
            /\ Len(raw) > 50 =>
                  /\ Len(out.s) = 50
                  /\ \A i \in 1..47 : out.s[i] = raw[i]
                  /\ \A i \in 48..50 : out.s[i] = "."

C12_Witness ==
    /\ ParserReturned
    /\ "summary" \in RawReply.keys
    /\ Len(RawReply.f["summary"].s) = 51
    /\ Len(ret.llm_val.f["summary"].s) = 50
    /\ ret.llm_val.f["summary"].s[47] = RawReply.f["summary"].s[47]
    /\ ret.llm_val.f["summary"].s[48] = "."

\* C13: every entry of the parser's topics is trimmed and non-empty
C13_ParserTopicsClean ==
    ParserReturned =>
        /\ ret.llm_val.f["topics"].k = "list"
        /\ \A i \in 1..Len(ret.llm_val.f["topics"].l) :
              LET t == ret.llm_val.f["topics"].l[i]
              IN  t.k = "str" /\ t.s # <<>> /\ Strip(t.s) = t.s

\* C27: when the classifier call returns, its result has the four keys and
\* its source and type replace the inferred ones (unknown / general when the
\* reply gave no valid value) unless an override sets the field
C27_ClassifierReplacesInferred ==
    Returned /\ ret.called /\ ret.llm_exc = "none" =>
        /\ {"source", "type", "topics", "summary"} \subseteq ret.llm_val.keys
        /\ ~Truthy(args.source_override) =>
              /\ ret.rec.source = ret.llm_val.f["source"]
              /\ ret.rec.source.s \in valid_sources
              /\ ~ReplyInSet("source", valid_sources) => ret.rec.source = PyStr(T_unknown)
        /\ ~Truthy(args.type_override) =>
              /\ ret.rec.type = ret.llm_val.f["type"]
              /\ ret.rec.type.s \in valid_types
              /\ ~ReplyInSet("type", valid_types) => ret.rec.type = PyStr(T_general)

C27_Witness ==
    /\ Returned /\ ret.called /\ ret.llm_exc = "none"
    /\ env.llm.reply = <<>>
    /\ NoOverrides
    /\ infer_metadata_from_filename(args.filename).source = T_meeting
    /\ ret.rec.source = PyStr(T_unknown) /\ ret.rec.type = PyStr(T_general)

----------------------------------------------------------------------------
(* Properties of infer_metadata_from_filename (SpecInfer) *)

\* the name after its last "/" or "\"
Bare(f) ==
    LET seps == {i \in 1..Len(f) : f[i] \in {"/", "\\"}}
    IN  IF seps = {} THEN f
        ELSE LET last == CHOOSE i \in seps : \A j \in seps : j <= i
             IN  [i \in 1..(Len(f) - last) |-> f[last + i]]

LowerCased(t) == [i \in 1..Len(t) |-> Fold(t[i])]

Inferred == <<ret.rec.source.s, ret.rec.type.s>>

\* C10: the pair is the one mapped to the prefix the bare filename starts
\* with, compared case-insensitively, and (unknown, general) when it starts
\* with none of them
C10_FilenameInference ==
    pc = "inferred" =>
        LET b == LowerCased(Bare(args.filename))
        IN  /\ ret.exc = "none"
            /\ Inferred = <<T_meeting, T_minutes>> <=> StartsWith(b, T_meeting \o <<"_">>)
            /\ Inferred = <<T_interview, T_transcript>> <=> StartsWith(b, T_interview \o <<"_">>)
            /\ Inferred = <<T_memo, T_note>> <=> StartsWith(b, T_memo \o <<"_">>)
            /\ Inferred = <<T_webinar, T_summary>> <=> StartsWith(b, T_webinar \o <<"_">>)
            /\ Inferred = <<T_unknown, T_general>> <=>
                  \A p \in {T_meeting, T_interview, T_memo, T_webinar} :
                      ~StartsWith(b, p \o <<"_">>)

C10_Witness ==
    /\ pc = "inferred"
    /\ args.filename = <<"c", ":", "\\">> \o T_memo \o <<"_", "\\">>
                          \o <<"M","E","E","T","I","N","G","_">> \o T_webinar \o <<"_">>
    /\ Inferred = <<T_meeting, T_minutes>>

----------------------------------------------------------------------------
(* Properties of parse_topics_string (SpecTopics) *)

TopicsText == env.sidecar.doc.f["topics"].s

\* positions that bound the comma-separated pieces of s
Cuts(s) == {0} \cup {i \in 1..Len(s) : s[i] = ","} \cup {Len(s) + 1}

NextCut(s, c) == CHOOSE n \in Cuts(s) : n > c /\ \A m \in Cuts(s) : m > c => n <= m

\* the characters of the piece after cut c that are not white space
Inked(s, c) == {i \in (c + 1)..(NextCut(s, c) - 1) : s[i] \notin Whitespace}

\* the cuts followed by a piece that is not blank
Kept(s) == {c \in Cuts(s) \ {Len(s) + 1} : Inked(s, c) # {}}

NthKept(s, n) == CHOOSE c \in Kept(s) : Cardinality({d \in Kept(s) : d < c}) = n - 1

\* the trimmed non-blank pieces of s in their order
ExpectedTopics(s) ==
    [n \in 1..Cardinality(Kept(s)) |->
        Item(SubSeq(s, Lowest(Inked(s, NthKept(s, n))), Highest(Inked(s, NthKept(s, n)))))]

\* C14: parse_topics_string returns the trimmed non-empty comma-separated
\* pieces in their order ([] for the empty text, [SAP, BTP, Cloud] for
\* "SAP, BTP ,Cloud"), and a sidecar topics text is parsed the same way
C14_TopicsString ==
    /\ pc = "split" =>
          /\ ret.rec.topics = PyList(ExpectedTopics(TopicsText))
          /\ TopicsText = <<>> => ret.rec.topics.l = <<>>
          /\ TopicsText = T_example =>
                ret.rec.topics.l = <<Item(T_SAP), Item(T_BTP), Item(T_Cloud)>>
    /\ pc = "sidecar" =>
          /\ ret.exc = "none"
          /\ ret.rec.topics = PyList(ExpectedTopics(TopicsText))

C14_Witness ==
    /\ pc = "sidecar"
    /\ TopicsText = <<" ", ",", "b", "a">>
    /\ ret.rec.topics.l = <<Item(<<"b", "a">>)>>

----------------------------------------------------------------------------
(* Properties of the rendered preamble (SpecRender) *)

RenderedLines == Split(page.s, "\n")

\* the lines strictly between the first line and the last two
RenderedBody == SubSeq(RenderedLines, 2, Len(RenderedLines) - 2)

KeyOrder(m) ==
    IF m.summary.k = "str" /\ m.summary.s = <<>>
    THEN <<T_source, T_type, T_date, T_topics, T_original_file>>
    ELSE <<T_source, T_type, T_date, T_topics, T_summary, T_original_file>>

\* C15: to_yaml_frontmatter renders, between two delimiter lines, one line
\* per key in the order source, type, date, topics, summary, original_file;
\* topics is a bracketed comma-separated list, [] when empty; the summary
\* line is left out exactly when the summary is empty
C15_FrontmatterLines ==
    pc = "rendered" =>
        /\ page.exc = "none"
        /\ Len(RenderedLines) >= 3
        /\ RenderedLines[1] = Dash
        /\ RenderedLines[Len(RenderedLines) - 1] = Dash
        /\ Len(RenderedBody) = Len(KeyOrder(ret.rec))
        /\ \A i \in 1..Len(RenderedBody) :
              StartsWith(RenderedBody[i], KeyOrder(ret.rec)[i] \o <<":", " ">>)
        /\ ret.rec.topics.l = <<>> =>
              RenderedBody[4] = T_topics \o <<":", " ", "[", "]">>
        /\ ret.rec.topics.l = <<Item(T_SAP), Item(T_BTP)>> =>
              RenderedBody[4] = T_topics \o <<":", " ", "[">> \o T_SAP
                                  \o <<",", " ">> \o T_BTP \o <<"]">>

\* C16: in the text of add_frontmatter_to_content the end delimiter line is
\* followed by a blank line and the long-form text starts after that line
C16_BlankLineBeforeContent ==
    pc = "prepended" /\ page.exc = "none" =>
        \E n \in 1..Len(page.s) :
            /\ Drop(page.s, n) = args.content.s
            /\ EndsWith(Take(page.s, n), NL \o Dash \o NL \o NL)

----------------------------------------------------------------------------
(* Properties of the batch run (SpecBatch, SpecConcurrent) *)

ListedIds(p) == [i \in 1..Len(inv[p].listing) |-> inv[p].listing[i].id]

\* how often the run recorded the file, in processed and in errors
Recorded(p, id) ==
    Cardinality({i \in 1..Len(inv[p].processed) : inv[p].processed[i] = id})
    + Cardinality({i \in 1..Len(inv[p].errors) : inv[p].errors[i].file = id})

\* the generator was constructed and the loop entered
LoopEntered(p) == inv[p].idx >= 1

\* C17: once the watcher and the generator are constructed, every listed
\* file is attempted, in listing order and one at a time, whatever per-file
\* steps fail; when main returns, every listed file is recorded exactly
\* once, in processed or in errors
C17_EveryFileAttempted ==
    \A p \in Invs :
        /\ inv[p].attempted = SubSeq(ListedIds(p), 1, inv[p].idx)
        /\ inv[p].pc \in Ended /\ LoopEntered(p) => inv[p].attempted = ListedIds(p)
        /\ inv[p].pc = "returned" =>
              \A i \in 1..Len(inv[p].listing) : Recorded(p, inv[p].listing[i].id) = 1

\* C18: a failure of a notification never leaves the notifier: no run
\* handles or raises an exception that came out of a notification
C18_NotificationSwallowed == \A p \in Invs : inv[p].exc # "notify"

\* name is orig with the marker before its extension, or at its end when
\* it has no extension
MarkedLike(name, orig) ==
    \E n \in 0..Len(orig) :
        /\ name = Take(orig, n) \o T_marker \o Drop(orig, n)
        /\ n = Len(orig) => Dots(orig) = {}
        /\ n < Len(orig) => orig[n + 1] = "." /\ \A i \in Dots(orig) : i <= n + 1

ProcessedBy(p) == {inv[p].processed[i] : i \in 1..Len(inv[p].processed)}

\* C19: with runs one after the other, a file recorded as processed carries
\* the marker (before its extension, or at the end without one), no later
\* run lists or attempts it, and it is recorded as processed only once
C19_ProcessedNeverRelisted ==
    /\ \A p \in Invs : \A id \in ProcessedBy(p) :
          MarkedLike(drive.name[id], drive.orig[id])
    /\ \A id \in ProcessedBy("r1") :
          /\ \A i \in 1..Len(inv["r2"].listing) : inv["r2"].listing[i].id # id
          /\ \A i \in 1..Len(inv["r2"].attempted) : inv["r2"].attempted[i] # id
          /\ id \notin ProcessedBy("r2")
    /\ \A p \in Invs : \A id \in ProcessedBy(p) :
          Cardinality({i \in 1..Len(inv[p].processed) : inv[p].processed[i] = id}) = 1

C19_Witness ==
    /\ drive.orig["f1"] = N_tar
    /\ inv["r1"].processed = <<"f1">>
    /\ drive.name["f1"] = <<"c", ".", "d">> \o T_marker \o <<".", "e">>
    /\ inv["r2"].pc = "returned"
    /\ inv["r2"].processed = <<"f2">>
    /\ drive.name["f2"] = N_b \o T_marker

\* C20: with two invocations at once, no step of a run before its rename
\* (listing, download, generation, upload) changes a file name, which is
\* all that a listing looks at: nothing claims the file for the run
C20_NothingClaimsFile ==
    [][\A p \in Invs :
          inv'[p] # inv[p] /\ inv[p].pc # "mark" => drive'.name = drive.name]_vars

\* both invocations listed f1, uploaded its three outputs and recorded it
C20_Witness ==
    /\ \A p \in Invs : inv[p].pc = "returned" /\ inv[p].processed = <<"f1">>
    /\ \A kind \in Kinds : drive.up["f1"][kind] = 2

Steps(p) == {inv[p].did[i] : i \in 1..Len(inv[p].did)}

\* the files a run recorded in errors
ErroredBy(p) ==
    {inv[p].errors[i].file : i \in {j \in 1..Len(inv[p].errors) :
                                      inv[p].errors[j].type = "file_error"}}

\* the run got a listing from list_new_files
HasListing(p) ==
    \/ inv[p].listing # <<>>
    \/ inv[p].pc \in {"promote", "approved", "promote_except", "return", "returned"}

\* C25: a file is renamed only after its three outputs were uploaded, and
\* recorded as processed only after the rename returned; a file that failed
\* before keeps its name, is in errors, and is listed again by the next run
C25_RenameAfterUploads ==
    /\ [][\A p \in Invs :
            /\ inv'[p] # inv[p] /\ drive'.name # drive.name =>
                  {"up_blog", "up_x_post", "up_linkedin"} \subseteq Steps(p)
            /\ inv'[p].processed # inv[p].processed =>
                  /\ "mark" \in Steps(p)
                  /\ drive.name[Cur(p).id] # drive.orig[Cur(p).id]]_vars
    /\ [](\A id \in ErroredBy("r1") :
            /\ id \notin ProcessedBy("r1")
            /\ inv["r2"].pc = "idle" => drive.name[id] = drive.orig[id]
            /\ HasListing("r2") => \E i \in 1..Len(inv["r2"].listing) :
                                      inv["r2"].listing[i].id = id)

C25_Witness ==
    /\ ErroredBy("r1") = {"f1"}
    /\ drive.up["f1"]["blog"] = 1 /\ drive.up["f1"]["linkedin"] = 0
    /\ inv["r2"].pc = "download" /\ Cur("r2").id = "f1"
    /\ drive.name["f1"] = drive.orig["f1"]

\* C26: over runs one after the other, each output of each file is uploaded
\* at most once, and a file recorded in errors has no uploaded output
C26_UploadedAtMostOnce ==
    /\ \A id \in FileIds : \A kind \in Kinds : drive.up[id][kind] <= 1
    /\ \A p \in Invs : \A id \in ErroredBy(p) :
          id \notin ProcessedBy("r1") \cup ProcessedBy("r2") =>
              \A kind \in Kinds : drive.up[id][kind] = 0

ErrorTypes(p) == {inv[p].errors[i].type : i \in 1..Len(inv[p].errors)}

\* C23: an error that reaches the handler of line 199 is appended as a
\* system error, notified, and re-raised by the raise statement; main then
\* never returns a result and the HTTP handler answers 500
C23_SystemErrorReraised ==
    \A p \in Invs :
        /\ inv[p].pc = "raised" =>
              /\ inv[p].errors # <<>>
              /\ inv[p].errors[Len(inv[p].errors)].type = "system_error"
              /\ inv[p].reraised
              /\ inv[p].status \in {0, 500}
        /\ inv[p].pc \in {"return", "returned"} => "system_error" \notin ErrorTypes(p)
        /\ inv[p].pc = "returned" => inv[p].status \in {0, 200}

----------------------------------------------------------------------------
(* Properties of the promoter (SpecPromote) *)

\* the file a run is working on between the page creation and the move
Moving(id) == \E p \in Invs : inv[p].pc = "move" /\ Approved(p) = id

\* C28: across promoter runs one after the other with arbitrary step
\* failures, each approved file leads to at most one created page, and a
\* file whose page was created is no longer in the approved listing
C28_OnePagePerFile ==
    \A id \in FileIds :
        /\ notion[id] <= 1
        /\ notion[id] >= 1 /\ ~Moving(id) => drive.parent[id] # "approved"

----------------------------------------------------------------------------
(* Properties of the service entrypoint (SpecService, SpecThreads) *)

AnsweredAt(p, route) == inv[p].pc = "answered" /\ inv[p].route = route

ImportFailed == svc.imports >= 1 /\ ~svc.outcome.ok

\* C29: the import is attempted at most once per process and never retried;
\* once it failed every request to / is answered 500 with the import error
\* and the batch main is never called; /health and /debug answer 200 and
\* never trigger the import
C29_ImportAttemptedOnce ==
    /\ svc.imports <= 1
    /\ ImportFailed =>
          /\ svc.calls = 0
          /\ \A p \in Invs :
                AnsweredAt(p, "/") =>
                    inv[p].status = 500 /\ inv[p].error = PyStr(svc.outcome.msg)
    /\ \A p \in Invs :
          AnsweredAt(p, "/health") \/ AnsweredAt(p, "/debug") => inv[p].status = 200
    /\ (\A p \in Invs : inv[p].route # "/") =>
          ~svc.import_attempted /\ svc.imports = 0

\* the state 'attempted, no import error, function not loaded'
Unloaded ==
    svc.import_attempted /\ ~Truthy(svc.import_error) /\ ~svc.cloud_function_main

\* C30: with requests handled at once and an import that succeeds, no
\* request reaches the test of line 98 in the state 'attempted, no import
\* error, function not loaded', and none is answered 500 'not loaded'
C30_NeverSeenUnloaded ==
    svc.outcome.ok =>
        \A p \in Invs :
            /\ ~(inv[p].pc = "if_not_loaded" /\ Unloaded)
            /\ ~(AnsweredAt(p, "/") /\ inv[p].error = PyStr(T_not_loaded))

----------------------------------------------------------------------------
(* Properties of the command-line path and the batch path (SpecPaths) *)

Cli == inv["r1"]

CliExited == Cli.pc = "exited"

Generations == {"gen_blog", "gen_x_post", "gen_linkedin"}

\* C24: the exit status is 0 exactly when the input was read, the three
\* outputs were generated and all were written; it is non-zero with no
\* output file written on a missing input, an unsupported extension, a read
\* error, a missing credential and a generation error, and non-zero on a
\* write error
C24_ExitStatus ==
    CliExited =>
        /\ Cli.code = 0 <=>
              /\ "read" \in Steps("r1")
              /\ Generations \subseteq Steps("r1")
              /\ disk = Kinds
        /\ Cli.exc \in {"missing", "unsupported", "read", "credential", "generation"} =>
              Cli.code # 0 /\ disk = {}
        /\ Cli.exc = "write" => Cli.code # 0

\* a run that read, generated and wrote everything and ended with status 0
C24_Witness ==
    CliExited /\ Cli.code = 0 /\ disk = Kinds /\ Generations \subseteq Steps("r1")

\* the places of a step among the steps completed for the current file
Pos(p, step) == {i \in 1..Len(inv[p].did) : inv[p].did[i] = step}

\* every b was preceded by an a
After(p, a, b) == \A j \in Pos(p, b) : \E i \in Pos(p, a) : i < j

\* extraction, metadata resolution, generation, writing
ResolveFirst(p) ==
    /\ After(p, "read", "resolve")
    /\ \A g \in Generations : After(p, "resolve", g) /\ After(p, g, "save")

\* extraction, generation, metadata resolution, writing
GenerateFirst(p) ==
    /\ \A g \in Generations : After(p, "read", g) /\ After(p, g, "resolve")
    /\ After(p, "resolve", "save")

Untouched(p) ==
    inv[p].attempted = <<>> /\ drive.up = NoUploads /\ drive.name = drive.orig

\* the batch run is in the handler of a constructor that found its
\* credential missing
ConstructionFailed(p) ==
    \/ inv[p].pc = "system_except" /\ inv[p].exc = "init" /\ drive.missing \in {"drive", "llm"}
    \/ inv[p].pc = "promote_except" /\ inv[p].exc = "promoter" /\ drive.missing = "notion"

\* C22: a missing credential or identifier makes the run fail at the
\* construction of the component that needs it, and that construction comes
\* before any input file is read, downloaded, processed, uploaded or
\* renamed, on the command-line path and on the batch path with its
\* trailing promoter phase
C22_FailsBeforeAnyFile ==
    /\ CliExited /\ Cli.exc = "credential" => "read" \notin Steps("r1")
    /\ ConstructionFailed("r2") => Untouched("r2")

============================================================================
